---- MODULE Spec2Model ----
(***************************************************************************)
(* Wake-on-LAN magic packets (crate wakey): the MAC parser, the packet     *)
(* builder and the UDP broadcaster of wakey/src/lib.rs, the command-line   *)
(* front end wakey-wake/src/main.rs, and the earlier single-crate version  *)
(* (src/lib.rs, src/bin/wake.rs).                                          *)
(*                                                                         *)
(* A str is a sequence of chars, a char is its Unicode scalar value, a     *)
(* byte is a number in 0..255.  A Result is a record tagged "Ok" or "Err"; *)
(* a call that unwinds is tagged "Panic".  Every outcome carries `calls`,  *)
(* the functions entered while it was computed, in order.                  *)
(***************************************************************************)
EXTENDS Integers, Sequences, FiniteSets, TLC

VARIABLES
    debug_assertions,   \* build profile: debug_assert_eq! is compiled in
    call,               \* the library call under way: its function and arguments
    ret,                \* its outcome, or Pending
    ncalls,             \* send_magic / send_magic_to calls made so far
    sender,             \* per calling thread: its send call and where it stands
    sockets,            \* the UDP endpoints that are open
    wire,               \* the datagrams transmitted, in order
    cli                 \* a run of a command-line program

lib_vars == <<debug_assertions, call, ret>>

send_vars == <<ncalls, sender, sockets, wire>>

vars == <<debug_assertions, call, ret, ncalls, sender, sockets, wire, cli>>

----------------------------------------------------------------------------
(* Bounds of the model *)

\* longest raw byte sequence given to from_bytes
MaxMacLen == 7

\* most fields a generated text is joined from
MaxFields == 8

\* longest generated text, in bytes
MaxDataLen == 18

\* threads that call send_magic / send_magic_to
NumThreads == 2

\* send calls made in one behaviour
MaxSends == 2

----------------------------------------------------------------------------
(* Constants of wakey/src/lib.rs *)

MAC_SIZE == 6

MAC_PER_MAGIC == 16

HEADER == [i \in 1..6 |-> 255]

PACKET_LEN == Len(HEADER) + MAC_SIZE * MAC_PER_MAGIC

----------------------------------------------------------------------------
(* Outcomes *)

Ok(v, c) == [tag |-> "Ok", val |-> v, calls |-> c]

Err(e, c) == [tag |-> "Err", err |-> e, calls |-> c]

Panic(m, c) == [tag |-> "Panic", msg |-> m, calls |-> c]

Pending == [tag |-> "Pending"]

----------------------------------------------------------------------------
(* Library primitives the code calls *)

\* char::len_utf8: the bytes of one char's UTF-8 encoding
len_utf8(c) ==
    IF c < 128 THEN 1 ELSE IF c < 2048 THEN 2 ELSE IF c < 65536 THEN 3 ELSE 4

\* char::encode_utf8: the UTF-8 encoding of one char
encode_utf8(c) ==
    IF c < 128 THEN <<c>>
    ELSE IF c < 2048 THEN <<192 + (c \div 64), 128 + (c % 64)>>
    ELSE IF c < 65536
         THEN <<224 + (c \div 4096), 128 + ((c \div 64) % 64), 128 + (c % 64)>>
    ELSE <<240 + (c \div 262144), 128 + ((c \div 4096) % 64),
           128 + ((c \div 64) % 64), 128 + (c % 64)>>

\* str::as_bytes (AsRef<[u8]> for str)
RECURSIVE as_bytes(_)
as_bytes(s) ==
    IF s = <<>> THEN <<>> ELSE encode_utf8(Head(s)) \o as_bytes(Tail(s))

\* str::len: the length in bytes, one len_utf8 per char
str_len(s) ==
    Len(s) + Cardinality({i \in 1..Len(s) : len_utf8(s[i]) >= 2})
           + Cardinality({i \in 1..Len(s) : len_utf8(s[i]) >= 3})
           + Cardinality({i \in 1..Len(s) : len_utf8(s[i]) >= 4})

\* str::split(char): the text between the occurrences of sep, in order; a
\* text with n occurrences of sep has n + 1 fields, empty ones included
RECURSIVE split(_, _)
split(s, sep) ==
    IF \A i \in 1..Len(s) : s[i] # sep
    THEN <<s>>
    ELSE LET i == CHOOSE k \in 1..Len(s) :
                      s[k] = sep /\ \A j \in 1..(k - 1) : s[j] # sep
         IN <<SubSeq(s, 1, i - 1)>> \o split(SubSeq(s, i + 1, Len(s)), sep)

\* hex::val: the value of one hexadecimal digit, -1 for any other byte
hex_val(c) ==
    IF c >= 65 /\ c <= 70 THEN c - 65 + 10
    ELSE IF c >= 97 /\ c <= 102 THEN c - 97 + 10
    ELSE IF c >= 48 /\ c <= 57 THEN c - 48
    ELSE -1

\* the position, from k on, of the first byte that is no hexadecimal digit
RECURSIVE first_invalid(_, _)
first_invalid(hex, k) ==
    IF hex_val(hex[k]) = -1 THEN k ELSE first_invalid(hex, k + 1)

\* hex::decode: an odd length fails with OddLength, then each pair of bytes
\* is one byte, hi << 4 | lo, and the first non-hexadecimal byte fails with
\* InvalidHexCharacter { c, index }, c the byte as a char and index its
\* position from 0
hex_decode(x) ==
    LET hex == as_bytes(x)
    IN IF Len(hex) % 2 # 0
       THEN [tag |-> "Err", err |-> [kind |-> "OddLength"]]
       ELSE IF \E i \in 1..Len(hex) : hex_val(hex[i]) = -1
            THEN LET k == first_invalid(hex, 1)
                 IN [tag |-> "Err",
                     err |-> [kind |-> "InvalidHexCharacter", c |-> hex[k],
                              index |-> k - 1]]
       ELSE [tag |-> "Ok",
             val |-> [i \in 1..(Len(hex) \div 2) |->
                         hex_val(hex[2 * i - 1]) * 16 + hex_val(hex[2 * i])]]

\* A message is kept as the sequence of its pieces, each a run of chars (a
\* string) or one char (its code point, as in the texts of MAC addresses).

\* the digits of {:x}
LowerHexDigits ==
    <<"0", "1", "2", "3", "4", "5", "6", "7", "8", "9", "a", "b", "c", "d",
      "e", "f">>

\* char::escape_debug of a char below U+0100: the char itself, or the
\* escape of the quote, the backslash and the chars that do not print
escape_debug(c) ==
    CASE c = 0 -> <<"\\0">>
      [] c = 9 -> <<"\\t">>
      [] c = 10 -> <<"\\n">>
      [] c = 13 -> <<"\\r">>
      [] c = 39 -> <<"\\'">>
      [] c = 92 -> <<"\\\\">>
      [] c < 32 \/ (c >= 127 /\ c <= 160) \/ c = 173 ->
            <<"\\u{"
              \o (IF c >= 16 THEN LowerHexDigits[(c \div 16) + 1] ELSE "")
              \o LowerHexDigits[(c % 16) + 1] \o "}">>
      [] OTHER -> <<c>>

\* {:?} of a char: its escape_debug between quotes
char_debug(c) == <<"'">> \o escape_debug(c) \o <<"'">>

\* #[derive(Debug)] of hex::FromHexError
FromHexError_debug(e) ==
    IF e.kind = "OddLength" THEN <<"OddLength">>
    ELSE <<"InvalidHexCharacter { c: ">> \o char_debug(e.c)
         \o <<", index: " \o ToString(e.index) \o " }">>

\* Result::expect on an Err: the message, then the {:?} of the error
expect_failed(msg, e) == <<msg \o ": ">> \o FromHexError_debug(e)

\* the message of a failed assert_eq!(left, right):
\* assertion `left == right` failed, then the two values
assert_eq_failed(left, right) ==
    <<"assertion ", 96, "left == right", 96,
      " failed\n  left: " \o ToString(left) \o "\n right: " \o ToString(right)>>

\* the message of arrayvec's extend_panic
CapacityExceeded == <<"ArrayVec: capacity exceeded in extend/from_iter">>

\* Iterator::flatten over a sequence of sequences
RECURSIVE flatten(_)
flatten(ss) == IF ss = <<>> THEN <<>> ELSE Head(ss) \o flatten(Tail(ss))

\* iter::repeat(x).take(n)
RECURSIVE repeat_take(_, _)
repeat_take(x, n) == IF n = 0 THEN <<>> ELSE <<x>> \o repeat_take(x, n - 1)

\* ArrayVec<_, CAP>::from_iter / extend: takes every item, and panics on the
\* first item past the capacity
arrayvec_exceeds(items, cap) == Len(items) > cap

\* collect::<Result<ArrayVec<_, CAP>, E>>() over lazily decoded fields: the
\* items are pulled one by one; the first Err ends the collection with that
\* error; an Ok item pulled when the ArrayVec is full panics.
RECURSIVE collect_results(_, _, _)
collect_results(items, taken, cap) ==
    IF items = <<>> THEN [tag |-> "Ok", val |-> taken]
    ELSE IF Head(items).tag = "Err" THEN [tag |-> "Err", err |-> Head(items).err]
    ELSE IF Len(taken) = cap THEN [tag |-> "Panic"]
    ELSE collect_results(Tail(items), Append(taken, Head(items).val), cap)

----------------------------------------------------------------------------
(* wakey/src/lib.rs: WolPacket *)

MutExtendMacReversed(mac, dbg) ==
    LET rev == [i \in 1..Len(mac) |-> mac[Len(mac) + 1 - i]]
    IN Ok(flatten(repeat_take(rev, MAC_PER_MAGIC)), <<"extend_mac">>)

\* WolPacket::extend_mac: the MAC repeated MAC_PER_MAGIC times into an
\* ArrayVec of capacity MAC_SIZE * MAC_PER_MAGIC
extend_mac(mac, dbg) ==
    LET magic == flatten(repeat_take(mac, MAC_PER_MAGIC))
    IN IF arrayvec_exceeds(magic, MAC_SIZE * MAC_PER_MAGIC)
       THEN Panic(CapacityExceeded,
                  <<"extend_mac">>)
       ELSE IF dbg /\ MAC_SIZE * MAC_PER_MAGIC # Len(magic)
            THEN Panic(assert_eq_failed(MAC_SIZE * MAC_PER_MAGIC, Len(magic)),
                       <<"extend_mac">>)
       ELSE Ok(magic, <<"extend_mac">>)

MutCreatePacketBytesNoCheck(mac, dbg) ==
    LET magic == extend_mac(mac, dbg)
        calls == <<"create_packet_bytes">> \o magic.calls
    IN IF magic.tag = "Panic" THEN Panic(magic.msg, calls)
       ELSE Ok(HEADER \o magic.val, calls)

\* WolPacket::create_packet_bytes
create_packet_bytes(mac, dbg) ==
    IF Len(mac) # MAC_SIZE
    THEN Err("InvalidMacLength", <<"create_packet_bytes">>)
    ELSE LET magic == extend_mac(mac, dbg)
             calls == <<"create_packet_bytes">> \o magic.calls
         IN IF magic.tag = "Panic" THEN Panic(magic.msg, calls)
            ELSE LET packet == HEADER \o magic.val
                 IN IF arrayvec_exceeds(packet, PACKET_LEN)
                    THEN Panic(CapacityExceeded,
                               calls)
                    ELSE IF dbg /\ PACKET_LEN # Len(packet)
                         THEN Panic(assert_eq_failed(PACKET_LEN, Len(packet)),
                                    calls)
                    ELSE Ok(packet, calls)

\* WolPacket::from_bytes (into_inner of the WolPacket is val)
from_bytes(mac, dbg) ==
    LET r == create_packet_bytes(mac, dbg)
        calls == <<"from_bytes">> \o r.calls
    IN CASE r.tag = "Ok" -> Ok(r.val, calls)
         [] r.tag = "Err" -> Err(r.err, calls)
         [] OTHER -> Panic(r.msg, calls)

MutMacToByteNoLengthCheck(data, sep, dbg) ==
    LET fields == split(data, sep)
        decoded == [i \in 1..Len(fields) |-> hex_decode(fields[i])]
        vecs == collect_results(decoded, <<>>, MAC_SIZE)
        calls == <<"mac_to_byte">>
    IN CASE vecs.tag = "Err" -> Err("InvalidMacFormat", calls)
         [] vecs.tag = "Panic" ->
              Panic(CapacityExceeded, calls)
         [] OTHER ->
              LET bytes == flatten(vecs.val)
              IN IF arrayvec_exceeds(bytes, MAC_SIZE)
                 THEN Panic(CapacityExceeded,
                            calls)
                 ELSE IF dbg /\ MAC_SIZE # Len(bytes)
                      THEN Panic(assert_eq_failed(MAC_SIZE, Len(bytes)),
                                 calls)
                 ELSE Ok(bytes, calls)

MutMacToByteLengthOffByOne(data, sep, dbg) ==
    IF str_len(data) # MAC_SIZE * 3
    THEN Err("InvalidMacLength", <<"mac_to_byte">>)
    ELSE MutMacToByteNoLengthCheck(data, sep, dbg)

\* WolPacket::mac_to_byte
mac_to_byte(data, sep, dbg) ==
    IF str_len(data) # MAC_SIZE * 3 - 1
    THEN Err("InvalidMacLength", <<"mac_to_byte">>)
    ELSE LET fields == split(data, sep)
             decoded == [i \in 1..Len(fields) |-> hex_decode(fields[i])]
             vecs == collect_results(decoded, <<>>, MAC_SIZE)
             calls == <<"mac_to_byte">>
         IN CASE vecs.tag = "Err" -> Err("InvalidMacFormat", calls)
              [] vecs.tag = "Panic" ->
                   Panic(CapacityExceeded, calls)
              [] OTHER ->
                   LET bytes == flatten(vecs.val)
                   IN IF arrayvec_exceeds(bytes, MAC_SIZE)
                      THEN Panic(CapacityExceeded,
                                 calls)
                      ELSE IF dbg /\ MAC_SIZE # Len(bytes)
                           THEN Panic(assert_eq_failed(MAC_SIZE, Len(bytes)),
                                      calls)
                      ELSE Ok(bytes, calls)

\* WolPacket::from_string: mac_to_byte, `?`, then from_bytes
from_string(data, sep, dbg) ==
    LET m == mac_to_byte(data, sep, dbg)
        calls == <<"from_string">> \o m.calls
    IN CASE m.tag = "Err" -> Err(m.err, calls)
         [] m.tag = "Panic" -> Panic(m.msg, calls)
         [] OTHER ->
              LET r == from_bytes(m.val, dbg)
              IN CASE r.tag = "Ok" -> Ok(r.val, calls \o r.calls)
                   [] r.tag = "Err" -> Err(r.err, calls \o r.calls)
                   [] OTHER -> Panic(r.msg, calls \o r.calls)

----------------------------------------------------------------------------
(* Inputs of the library calls *)

\* byte values of a raw MAC
ByteSamples == {0, 1, 255}

\* raw byte sequences given to from_bytes: every length up to MaxMacLen
MacInputs == UNION {[1..n -> ByteSamples] : n \in 0..MaxMacLen}

\* two-digit octets: "09", "aF", "fA"
Octets == {<<48, 57>>, <<97, 70>>, <<102, 65>>}

\* last fields holding a char outside ASCII: "\u{e9}" and "0\u{e9}"
NonAsciiFields == {<<233>>, <<48, 233>>}

\* ':', '-', '/'
AsciiSeps == {58, 45, 47}

\* fields of any shape: "", "09", "1B2c", "Zz", "01002"
FieldSet == {<<>>, <<48, 57>>, <<49, 66, 50, 99>>, <<90, 122>>,
             <<48, 49, 48, 48, 50>>}

\* "", "09"
SmallFieldSet == {<<>>, <<48, 57>>}

\* separators that are a hexadecimal digit or wider than one byte:
\* 'a', '\u{e9}' (2 bytes), '\u{20ac}' (3 bytes)
OddSeps == {97, 233, 8364}

\* the fields joined by the char j
RECURSIVE join(_, _)
join(fs, j) ==
    IF Len(fs) = 1 THEN fs[1] ELSE fs[1] \o <<j>> \o join(Tail(fs), j)

\* the texts of at most n more fields of F joined by j to a text of `last`,
\* MaxDataLen bytes at most, added to `all`
RECURSIVE MoreTexts(_, _, _, _, _)
MoreTexts(all, last, j, F, n) ==
    IF n = 0 THEN all
    ELSE LET next == {t \in {d \o <<j>> \o f : d \in last, f \in F} :
                        str_len(t) <= MaxDataLen}
         IN MoreTexts(all \cup next, next, j, F, n - 1)

\* the texts of at most n fields of F joined by j, MaxDataLen bytes at most
Texts(j, F, n) == MoreTexts(F, F, j, F, n - 1)

\* six octets (the last one possibly not ASCII) joined by j
MacTexts(j) ==
    {join(<<fs[1], fs[2], fs[3], fs[4], fs[5], last>>, j) :
        fs \in [1..5 -> Octets], last \in Octets \cup NonAsciiFields}

\* the arguments of from_string: MAC texts parsed with the separator that
\* joins them or with another one, texts of any fields joined by ':', and
\* texts joined by a separator that is a hexadecimal digit or is not ASCII
StringInputs(dummy) ==
    {[fn |-> "from_string", data |-> d, sep |-> s] :
        d \in UNION {MacTexts(j) : j \in AsciiSeps}, s \in AsciiSeps}
    \cup {[fn |-> "from_string", data |-> d, sep |-> 58] :
             d \in Texts(58, FieldSet, MaxFields)}
    \cup UNION {{[fn |-> "from_string", data |-> d, sep |-> s] :
                    d \in Texts(s, SmallFieldSet, MaxFields)} : s \in OddSeps}

BytesInputs == {[fn |-> "from_bytes", mac |-> m] : m \in MacInputs}

----------------------------------------------------------------------------
(* The library called once, on any input *)

IdleSender ==
    [pc |-> "idle", api |-> "none", id |-> 0, packet |-> <<>>,
     src |-> <<>>, dst |-> <<>>, sock |-> 0, log |-> <<>>, ret |-> Pending]

NoSend ==
    /\ ncalls = 0
    /\ sender = <<>>
    /\ sockets = {}
    /\ wire = <<>>

NoCli == cli = [pc |-> "none"]

InitBuild ==
    /\ call \in BytesInputs
    /\ debug_assertions \in BOOLEAN
    /\ ret = Pending
    /\ NoSend
    /\ NoCli

InitParse ==
    /\ call \in StringInputs(0)
    /\ debug_assertions \in BOOLEAN
    /\ ret = Pending
    /\ NoSend
    /\ NoCli

\* a call of WolPacket::from_bytes returns
FromBytes ==
    /\ ret = Pending
    /\ call.fn = "from_bytes"
    /\ ret' = from_bytes(call.mac, debug_assertions)
    /\ UNCHANGED <<debug_assertions, call, send_vars, cli>>

\* a call of WolPacket::from_string returns
FromString ==
    /\ ret = Pending
    /\ call.fn = "from_string"
    /\ ret' = from_string(call.data, call.sep, debug_assertions)
    /\ UNCHANGED <<debug_assertions, call, send_vars, cli>>

NextBuild == FromBytes

NextParse == FromString

SpecBuild == InitBuild /\ [][NextBuild]_vars

SpecParse == InitParse /\ [][NextParse]_vars

----------------------------------------------------------------------------
(* The broadcaster: WolPacket::send_magic, WolPacket::send_magic_to *)

Threads == 1..NumThreads

SocketAddr(ip, port) == [ip |-> ip, port |-> port]

MutSendMagicDstPort7 == SocketAddr(<<255, 255, 255, 255>>, 7)

\* SocketAddr::from(([0, 0, 0, 0], 0))
send_magic_src == SocketAddr(<<0, 0, 0, 0>>, 0)

\* SocketAddr::from(([255, 255, 255, 255], 9))
send_magic_dst == SocketAddr(<<255, 255, 255, 255>>, 9)

\* the WolPackets that exist: each was built by from_bytes
WolPackets ==
    {from_bytes(m, FALSE).val : m \in {<<0, 1, 2, 3, 4, 5>>,
                                        <<255, 255, 255, 255, 255, 255>>}}

\* (src, dst) a caller of send_magic_to passes: the addresses of the doc
\* example (lib.rs:110-111), and a fixed port to a subnet broadcast address
SendAddrs ==
    {<<SocketAddr(<<0, 0, 0, 0>>, 0), SocketAddr(<<255, 255, 255, 255>>, 9)>>,
     <<SocketAddr(<<192, 168, 1, 10>>, 4000),
       SocketAddr(<<192, 168, 1, 255>>, 7)>>}

\* std::io::Error kinds the transport answers with
BindErrors == {"AddrInUse", "PermissionDenied"}

SetBroadcastErrors == {"PermissionDenied"}

SendToErrors == {"NetworkUnreachable"}

\* impl From<std::io::Error> for WakeyError, applied by `?`
SendFailure(e) == [tag |-> "Err", err |-> <<"SendFailure", e>>]

\* a bound port is taken until its socket is closed (port 0 asks for a free one)
AddrInUse(addr) == addr.port # 0 /\ \E s \in sockets : s.addr = addr

MutDropLeaks(socks, id) == socks

\* udp_sock goes out of scope: the endpoint is closed
drop_udp_sock(socks, id) == {s \in socks : s.id # id}

Step(op, arg, res) == [op |-> op, arg |-> arg, res |-> res]

\* entering send_magic_to: nothing is bound yet
Enter(t, api, packet, src, dst) ==
    /\ ncalls < MaxSends
    /\ sender[t].pc \in {"idle", "returned"}
    /\ ncalls' = ncalls + 1
    /\ sender' = [sender EXCEPT ![t] =
                    [pc |-> "bind", api |-> api, id |-> ncalls + 1,
                     packet |-> packet, src |-> src, dst |-> dst, sock |-> 0,
                     log |-> <<>>, ret |-> Pending]]
    /\ UNCHANGED <<sockets, wire, lib_vars, cli>>

\* WolPacket::send_magic: send_magic_to with the default addresses
send_magic(t) ==
    \E packet \in WolPackets :
        Enter(t, "send_magic", packet, send_magic_src, send_magic_dst)

\* WolPacket::send_magic_to is called
send_magic_to(t) ==
    \E packet \in WolPackets : \E a \in SendAddrs :
        Enter(t, "send_magic_to", packet, a[1], a[2])

\* the call returns r; udp_sock, if bound, is dropped
Return(t, step, r) ==
    /\ sender' = [sender EXCEPT ![t].pc = "returned", ![t].ret = r,
                                ![t].sock = 0,
                                ![t].log = Append(sender[t].log, step)]
    /\ sockets' = drop_udp_sock(sockets, sender[t].sock)

\* let udp_sock = UdpSocket::bind(src)?;
bind(t) ==
    /\ sender[t].pc = "bind"
    /\ \/ /\ ~AddrInUse(sender[t].src)
          /\ sockets' = sockets \cup {[id |-> sender[t].id,
                                        addr |-> sender[t].src,
                                        broadcast |-> FALSE]}
          /\ sender' = [sender EXCEPT
                          ![t].pc = "set_broadcast", ![t].sock = sender[t].id,
                          ![t].log = Append(sender[t].log,
                                            Step("bind", sender[t].src, "Ok"))]
       \/ \E e \in BindErrors :
             /\ e = "AddrInUse" \/ ~AddrInUse(sender[t].src)
             /\ Return(t, Step("bind", sender[t].src, e), SendFailure(e))
    /\ UNCHANGED <<ncalls, wire, lib_vars, cli>>

MutSetBroadcastErrorIgnored(t) ==
    /\ sender[t].pc = "set_broadcast"
    /\ \E r \in {"Ok"} \cup SetBroadcastErrors :
          /\ sockets' = {IF s.id = sender[t].sock
                         THEN [s EXCEPT !.broadcast = (r = "Ok")] ELSE s :
                         s \in sockets}
          /\ sender' = [sender EXCEPT
                          ![t].pc = "send_to",
                          ![t].log = Append(sender[t].log,
                                            Step("set_broadcast", TRUE, r))]
    /\ UNCHANGED <<ncalls, wire, lib_vars, cli>>

\* udp_sock.set_broadcast(true)?;
set_broadcast(t) ==
    /\ sender[t].pc = "set_broadcast"
    /\ \/ /\ sockets' = {IF s.id = sender[t].sock
                          THEN [s EXCEPT !.broadcast = TRUE] ELSE s :
                          s \in sockets}
          /\ sender' = [sender EXCEPT
                          ![t].pc = "send_to",
                          ![t].log = Append(sender[t].log,
                                            Step("set_broadcast", TRUE, "Ok"))]
       \/ \E e \in SetBroadcastErrors :
             Return(t, Step("set_broadcast", TRUE, e), SendFailure(e))
    /\ UNCHANGED <<ncalls, wire, lib_vars, cli>>

\* a datagram to the broadcast address needs SO_BROADCAST on the socket
MayBroadcast(t) ==
    \/ sender[t].dst.ip # <<255, 255, 255, 255>>
    \/ \E s \in sockets : s.id = sender[t].sock /\ s.broadcast

\* udp_sock.send_to(&self.packet, dst)?; Ok(())
send_to(t) ==
    /\ sender[t].pc = "send_to"
    /\ \/ /\ MayBroadcast(t)
          /\ wire' = Append(wire, [call |-> sender[t].id, dst |-> sender[t].dst,
                                   payload |-> sender[t].packet])
          /\ Return(t, Step("send_to", sender[t].dst, "Ok"),
                    [tag |-> "Ok", val |-> <<>>])
       \/ /\ ~MayBroadcast(t)
          /\ wire' = wire
          /\ Return(t, Step("send_to", sender[t].dst, "PermissionDenied"),
                    SendFailure("PermissionDenied"))
       \/ \E e \in SendToErrors :
             /\ wire' = wire
             /\ Return(t, Step("send_to", sender[t].dst, e), SendFailure(e))
    /\ UNCHANGED <<ncalls, lib_vars, cli>>

InitSend ==
    /\ debug_assertions = FALSE
    /\ call = [fn |-> "none"]
    /\ ret = Pending
    /\ ncalls = 0
    /\ sender = [t \in Threads |-> IdleSender]
    /\ sockets = {}
    /\ wire = <<>>
    /\ NoCli

NextSend ==
    \E t \in Threads :
        \/ send_magic(t)
        \/ send_magic_to(t)
        \/ bind(t)
        \/ set_broadcast(t)
        \/ send_to(t)

SpecSend == InitSend /\ [][NextSend]_vars

----------------------------------------------------------------------------
(* src/lib.rs: the earlier WolPacket, whose constructors return no Result *)

\* split(sep).flat_map(|x| hex::decode(x).expect("Invalid mac!")) collected
\* into an ArrayVec of MAC_SIZE bytes: field by field, a field that does not
\* decode panics, and so does a byte past the capacity
RECURSIVE legacy_collect(_, _)
legacy_collect(fields, taken) ==
    IF fields = <<>> THEN [tag |-> "Ok", val |-> taken]
    ELSE LET d == hex_decode(Head(fields))
         IN IF d.tag = "Err" THEN [tag |-> "Panic", msg |-> expect_failed("Invalid mac!", d.err)]
            ELSE IF arrayvec_exceeds(taken \o d.val, MAC_SIZE)
                 THEN [tag |-> "Panic",
                       msg |-> CapacityExceeded]
            ELSE legacy_collect(Tail(fields), taken \o d.val)

\* WolPacket::mac_to_byte of src/lib.rs
legacy_mac_to_byte(data, sep, dbg) ==
    LET bytes == legacy_collect(split(data, sep), <<>>)
        calls == <<"mac_to_byte">>
    IN IF bytes.tag = "Panic" THEN Panic(bytes.msg, calls)
       ELSE IF dbg /\ MAC_SIZE # Len(bytes.val)
            THEN Panic(assert_eq_failed(MAC_SIZE, Len(bytes.val)),
                       calls)
       ELSE Ok(bytes.val, calls)

\* WolPacket::create_packet_bytes of src/lib.rs: no length check
legacy_create_packet_bytes(mac, dbg) ==
    LET magic == extend_mac(mac, dbg)
        calls == <<"create_packet_bytes">> \o magic.calls
    IN IF magic.tag = "Panic" THEN Panic(magic.msg, calls)
       ELSE LET packet == HEADER \o magic.val
            IN IF dbg /\ PACKET_LEN # Len(packet)
               THEN Panic(assert_eq_failed(PACKET_LEN, Len(packet)),
                          calls)
               ELSE Ok(packet, calls)

\* WolPacket::from_string of src/lib.rs:
\* from_bytes(&mac_to_byte(data, sep)), from_bytes being create_packet_bytes
legacy_from_string(data, sep, dbg) ==
    LET m == legacy_mac_to_byte(data, sep, dbg)
        calls == <<"from_string">> \o m.calls
    IN IF m.tag = "Panic" THEN Panic(m.msg, calls)
       ELSE LET r == legacy_create_packet_bytes(m.val, dbg)
            IN IF r.tag = "Panic"
               THEN Panic(r.msg, calls \o <<"from_bytes">> \o r.calls)
               ELSE Ok(r.val, calls \o <<"from_bytes">> \o r.calls)

----------------------------------------------------------------------------
(* The command-line programs: wakey-wake/src/main.rs and src/bin/wake.rs *)

Contains(m, c) == \E i \in 1..Len(m) : m[i] = c

Some(v) == [some |-> TRUE, val |-> v]

None == [some |-> FALSE]

MutWakeyWakeSepLast(m) ==
    IF \E i \in 1..Len(m) : m[i] \in {58, 45, 47}
    THEN Some(m[CHOOSE i \in 1..Len(m) :
                    /\ m[i] \in {58, 45, 47}
                    /\ \A j \in (i + 1)..Len(m) : m[j] \notin {58, 45, 47}])
    ELSE None

\* mac_adress.chars().find(|ch| *ch == ':' || *ch == '-' || *ch == '/')
wakey_wake_sep(m) ==
    IF \E i \in 1..Len(m) : m[i] = 58 \/ m[i] = 45 \/ m[i] = 47
    THEN Some(m[CHOOSE i \in 1..Len(m) :
                    /\ (m[i] = 58 \/ m[i] = 45 \/ m[i] = 47)
                    /\ \A j \in 1..(i - 1) :
                          ~(m[j] = 58 \/ m[j] = 45 \/ m[j] = 47)])
    ELSE None

\* let mut sep = '/'; [":", "-"].iter().for_each(|s| if m.contains(s) {..})
wake_sep(m) ==
    LET sep0 == 47
        sep1 == IF Contains(m, 58) THEN 58 ELSE sep0
        sep2 == IF Contains(m, 45) THEN 45 ELSE sep1
    IN sep2

\* the texts given on the command line: six octets "09" with any of
\* ':', '-', '/', '.' between them, and twelve digits with nothing between
CliArgs ==
    {<<48, 57, g[1], 48, 57, g[2], 48, 57, g[3], 48, 57, g[4], 48, 57, g[5],
       48, 57>> : g \in [1..5 -> {58, 45, 47, 46}]}
    \cup {<<48, 57, 48, 57, 48, 57, 48, 57, 48, 57, 48, 57>>}

\* what send_magic returns to the program
SendMagicResults ==
    {[tag |-> "Ok", val |-> <<>>]}
    \cup {SendFailure(e) : e \in BindErrors \cup SetBroadcastErrors \cup SendToErrors}

\* the message of the expect() that ends the scan of main.rs:13-16
ExpectSeparator ==
    <<"Invalid MAC address format. Please use one of the separators: [:, -, /]">>

\* how the program ends: the separator it chose, what the parse gave, what it
\* printed, its exit, and the message of the panic that ended it, if one did
CliExit(sep, parse, out, code, msg) ==
    [cli EXCEPT !.pc = "exit", !.sep = sep, !.parse = parse, !.stdout = out,
                !.exit = code, !.panic = msg]

\* the datagram of a send_magic that succeeded
Sent(r, packet) ==
    IF r.tag = "Ok"
    THEN Append(wire, [call |-> 0, dst |-> send_magic_dst, payload |-> packet])
    ELSE wire

\* main of wakey-wake/src/main.rs
wakey_wake_main ==
    /\ cli.pc = "start"
    /\ cli.prog = "wakey-wake"
    /\ LET sep == wakey_wake_sep(cli.arg.val)
       IN IF ~sep.some
          THEN /\ cli' = CliExit(None, "not called", <<>>, "panic",
                                     ExpectSeparator)
               /\ wire' = wire
          ELSE LET wol == from_string(cli.arg.val, sep.val, debug_assertions)
               IN CASE wol.tag = "Panic" ->
                         /\ cli' = CliExit(sep, "Panic", <<>>, "panic", wol.msg)
                         /\ wire' = wire
                    [] wol.tag = "Err" ->
                         /\ cli' = CliExit(sep, wol.err, <<>>, "Err", <<>>)
                         /\ wire' = wire
                    [] OTHER ->
                         \E r \in SendMagicResults :
                             /\ wire' = Sent(r, wol.val)
                             /\ cli' = CliExit(sep, "Ok",
                                     IF r.tag = "Ok"
                                     THEN <<"Sent the magic packet.">>
                                     ELSE <<"Failed to send the magic packet.">>,
                                     "Ok", <<>>)
    /\ UNCHANGED <<lib_vars, ncalls, sender, sockets>>

\* main of src/bin/wake.rs
wake_main ==
    /\ cli.pc = "start"
    /\ cli.prog = "wake"
    /\ IF ~cli.arg.some
       THEN /\ cli' = CliExit(None, "not called",
                              <<"give mac address to wake up">>, "Ok", <<>>)
            /\ wire' = wire
       ELSE LET sep == wake_sep(cli.arg.val)
                wol == legacy_from_string(cli.arg.val, sep, debug_assertions)
            IN IF wol.tag = "Panic"
               THEN /\ cli' = CliExit(Some(sep), "Panic", <<>>, "panic",
                                        wol.msg)
                    /\ wire' = wire
               ELSE \E r \in SendMagicResults :
                        /\ wire' = Sent(r, wol.val)
                        /\ cli' = CliExit(Some(sep), "Ok",
                                IF r.tag = "Ok"
                                THEN <<"sent the magic packet.">>
                                ELSE <<"failed to send the magic packet.">>,
                                "Ok", <<>>)
    /\ UNCHANGED <<lib_vars, ncalls, sender, sockets>>

InitCli ==
    /\ debug_assertions \in BOOLEAN
    /\ call = [fn |-> "none"]
    /\ ret = Pending
    /\ NoSend
    /\ \/ \E m \in CliArgs : \E prog \in {"wakey-wake", "wake"} :
            cli = [pc |-> "start", prog |-> prog, arg |-> Some(m), sep |-> None,
                   parse |-> "not called", stdout |-> <<>>, exit |-> "running",
                   panic |-> <<>>]
       \/ cli = [pc |-> "start", prog |-> "wake", arg |-> None, sep |-> None,
                 parse |-> "not called", stdout |-> <<>>, exit |-> "running",
                   panic |-> <<>>]

NextCli == wakey_wake_main \/ wake_main

SpecCli == InitCli /\ [][NextCli]_vars

----------------------------------------------------------------------------
(* What the claims about the library speak of *)

\* the call has returned (or unwound)
Done == ret.tag # "Pending"

\* "0123456789abcdef" and "0123456789ABCDEF"
LowerDigits ==
    <<48, 49, 50, 51, 52, 53, 54, 55, 56, 57, 97, 98, 99, 100, 101, 102>>

UpperDigits ==
    <<48, 49, 50, 51, 52, 53, 54, 55, 56, 57, 65, 66, 67, 68, 69, 70>>

IsHexDigit(c) == \E v \in 1..16 : c = LowerDigits[v] \/ c = UpperDigits[v]

DigitValue(c) ==
    (CHOOSE v \in 1..16 : c = LowerDigits[v] \/ c = UpperDigits[v]) - 1

\* d is six fields of two hexadecimal digits joined by s, and s splits it
\* into just these fields
SplitsIntoSixOctets(d, s) ==
    /\ Len(d) = 17
    /\ \A i \in 1..17 :
          IF i % 3 = 0 THEN d[i] = s ELSE IsHexDigit(d[i]) /\ d[i] # s

\* the value of the k-th field of such a text
OctetOf(d, k) == DigitValue(d[3 * k - 2]) * 16 + DigitValue(d[3 * k - 1])

\* six 0xFF, then the MAC sixteen times
MagicPacketOf(m) ==
    [i \in 1..102 |-> IF i <= 6 THEN 255 ELSE m[((i - 7) % 6) + 1]]

\* the error came from the parser's own length check
RejectedByParserLength ==
    /\ ret.tag = "Err"
    /\ ret.err = "InvalidMacLength"
    /\ ret.calls = <<"from_string", "mac_to_byte">>

\* C1: from_bytes on a MAC of exactly 6 bytes succeeds; the packet has 102
\* bytes, the first 6 are 0xFF, and byte 6+6k+i is mac[i] for k in 0..15 and
\* i in 0..5.
C1_FromBytesLayout ==
    (call.fn = "from_bytes" /\ Done /\ Len(call.mac) = 6) =>
        /\ ret.tag = "Ok"
        /\ Len(ret.val) = 102
        /\ \A i \in 0..5 : ret.val[i + 1] = 255
        /\ \A k \in 0..15 : \A i \in 0..5 :
              ret.val[6 + 6 * k + i + 1] = call.mac[i + 1]

\* a packet was built from a MAC whose bytes differ
C1_Witness ==
    /\ call.fn = "from_bytes"
    /\ call.mac = <<0, 1, 255, 255, 1, 1>>
    /\ ret.tag = "Ok"

\* C5: from_bytes on a byte sequence of any other length fails with
\* InvalidMacLength, returns no packet and never enters extend_mac.
C5_WrongLengthRejected ==
    (call.fn = "from_bytes" /\ Done /\ Len(call.mac) # 6) =>
        /\ ret.tag = "Err"
        /\ ret.err = "InvalidMacLength"
        /\ \A i \in 1..Len(ret.calls) : ret.calls[i] # "extend_mac"

\* a sequence of 7 bytes, which would overflow the 96-byte buffer, was
\* rejected
C5_Witness ==
    /\ call.fn = "from_bytes"
    /\ Len(call.mac) = 7
    /\ ret.tag = "Err"

\* C2: from_string on six two-digit hexadecimal fields joined by an ASCII
\* separator that is no hexadecimal digit succeeds, and the packet is six
\* 0xFF followed by 16 copies of the MAC whose i-th byte is the value of the
\* i-th field, whatever the case of its digits.
C2_MacTextParsed ==
    (/\ call.fn = "from_string"
     /\ Done
     /\ call.sep < 128
     /\ ~IsHexDigit(call.sep)
     /\ SplitsIntoSixOctets(call.data, call.sep)) =>
        /\ ret.tag = "Ok"
        /\ ret.val = MagicPacketOf([k \in 1..6 |-> OctetOf(call.data, k)])

\* "aF-09-fA-09-aF-fA" was parsed with '-'
C2_Witness ==
    /\ call.fn = "from_string"
    /\ call.sep = 45
    /\ call.data = <<97, 70, 45, 48, 57, 45, 102, 65, 45, 48, 57, 45,
                     97, 70, 45, 102, 65>>
    /\ ret.tag = "Ok"

\* C3 as stated: a text whose length is not 17 characters fails with
\* InvalidMacLength, and a text of 17 characters is never rejected with
\* InvalidMacLength by the parser.
C3_LengthInChars ==
    (call.fn = "from_string" /\ Done) =>
        /\ Len(call.data) # 17 => RejectedByParserLength
        /\ Len(call.data) = 17 => ~RejectedByParserLength

\* C3 amended: a text whose length is not 17 bytes (UTF-8) fails with
\* InvalidMacLength from the parser's length check, before any splitting or
\* decoding, and a text of 17 bytes is never rejected with InvalidMacLength
\* by the parser.
C3_LengthInBytes ==
    (call.fn = "from_string" /\ Done) =>
        /\ Len(as_bytes(call.data)) # 17 => RejectedByParserLength
        /\ Len(as_bytes(call.data)) = 17 => ~RejectedByParserLength

\* a text of 16 chars and 17 bytes passed the length check and failed on
\* its format
C3_Witness ==
    /\ call.fn = "from_string"
    /\ Len(call.data) = 16
    /\ Len(as_bytes(call.data)) = 17
    /\ ret.tag = "Err"
    /\ ret.err = "InvalidMacFormat"

\* C4: a text of length 17 that the separator does not split into exactly 6
\* fields of exactly two hexadecimal digits fails with InvalidMacFormat, and
\* never yields a MAC.  Stated of the calls that return; the calls that abort
\* are the subject of C6.
C4_MalformedRejected ==
    (/\ call.fn = "from_string"
     /\ Done
     /\ ret.tag # "Panic"
     /\ Len(call.data) = 17
     /\ Len(as_bytes(call.data)) = 17
     /\ ~SplitsIntoSixOctets(call.data, call.sep)) =>
        /\ ret.tag = "Err"
        /\ ret.err = "InvalidMacFormat"

\* C6: from_string returns a packet or one of InvalidMacLength and
\* InvalidMacFormat on every input; it never aborts.
C6_Total ==
    (call.fn = "from_string" /\ Done) =>
        \/ ret.tag = "Ok"
        \/ ret.tag = "Err" /\ ret.err \in {"InvalidMacLength", "InvalidMacFormat"}

----------------------------------------------------------------------------
(* What the claims about the broadcaster speak of *)

InProgress(t) == sender[t].pc \in {"bind", "set_broadcast", "send_to"}

\* the datagrams on the wire that call number id transmitted
DatagramsOf(id) == {i \in 1..Len(wire) : wire[i].call = id}

\* what the transport answered to the steps of t's call, in order
AnswersOf(t) == [i \in 1..Len(sender[t].log) |-> sender[t].log[i].res]

\* C7: the steps of a send_magic_to call are bind(source), enable broadcast,
\* send(packet, destination), in this order and each at most once; no step
\* follows a failed one; the call returns SendFailure of the failed step's
\* error, having transmitted nothing, or returns success after three
\* successful steps, having transmitted exactly one datagram, whose payload
\* is the packet's 102 bytes.
C7_SendSteps ==
    \A t \in Threads :
        LET s == sender[t]
            n == Len(s.log)
            order == <<"bind", "set_broadcast", "send_to">>
        IN s.pc # "idle" =>
            /\ n <= 3
            /\ \A i \in 1..n : s.log[i].op = order[i]
            /\ \A i \in 1..(n - 1) : s.log[i].res = "Ok"
            /\ n >= 1 => s.log[1].arg = s.src
            /\ n >= 3 => s.log[3].arg = s.dst
            /\ InProgress(t) =>
                  /\ \A i \in 1..n : s.log[i].res = "Ok"
                  /\ DatagramsOf(s.id) = {}
            /\ s.pc = "returned" =>
                  /\ n >= 1
                  /\ s.ret.tag \in {"Ok", "Err"}
                  /\ s.ret.tag = "Ok" <=> (n = 3 /\ s.log[n].res = "Ok")
                  /\ s.ret.tag = "Err" =>
                        /\ s.log[n].res # "Ok"
                        /\ s.ret.err = <<"SendFailure", s.log[n].res>>
                        /\ DatagramsOf(s.id) = {}
                  /\ s.ret.tag = "Ok" =>
                        /\ Cardinality(DatagramsOf(s.id)) = 1
                        /\ \A i \in DatagramsOf(s.id) :
                              /\ wire[i].payload = s.packet
                              /\ Len(wire[i].payload) = 102
                              /\ wire[i].dst = s.dst

\* a call ended at a failed set_broadcast
C7_Witness ==
    \E t \in Threads :
        /\ sender[t].pc = "returned"
        /\ Len(sender[t].log) = 2
        /\ sender[t].ret = SendFailure("PermissionDenied")

\* C8: every open endpoint belongs to a call in progress that bound it, so
\* once a call has returned the endpoint it bound is closed, and the open
\* endpoints are never more than the calls in progress.
C8_SocketScoped ==
    /\ \A s \in sockets :
          \E t \in Threads : InProgress(t) /\ sender[t].sock = s.id
    /\ \A t \in Threads :
          ~InProgress(t) => \A s \in sockets : s.id # sender[t].id
    /\ Cardinality(sockets) <= Cardinality({t \in Threads : InProgress(t)})

\* a call that had bound an endpoint returned with a send failure, and
\* another that had bound one returned with success
C8_Witness ==
    \E t, u \in Threads :
        /\ sender[t].pc = "returned"
        /\ Len(sender[t].log) = 3
        /\ sender[t].ret.tag = "Err"
        /\ sender[u].pc = "returned"
        /\ sender[u].ret.tag = "Ok"
        /\ sockets = {}

\* C9: send_magic binds 0.0.0.0:0 and sends to 255.255.255.255:9 and uses no
\* other address, and under the same answers of the transport it returns
\* what send_magic_to returns for these two addresses and the same packet,
\* with the same steps and the same datagram.
C9_SendMagicDefaults ==
    \A t \in Threads :
        LET s == sender[t]
        IN s.api = "send_magic" =>
            /\ s.src = [ip |-> <<0, 0, 0, 0>>, port |-> 0]
            /\ s.dst = [ip |-> <<255, 255, 255, 255>>, port |-> 9]
            /\ \A i \in 1..Len(s.log) :
                  /\ s.log[i].op = "bind" =>
                        s.log[i].arg = [ip |-> <<0, 0, 0, 0>>, port |-> 0]
                  /\ s.log[i].op = "send_to" =>
                        s.log[i].arg = [ip |-> <<255, 255, 255, 255>>, port |-> 9]
            /\ \A i \in DatagramsOf(s.id) :
                  wire[i].dst = [ip |-> <<255, 255, 255, 255>>, port |-> 9]
            /\ \A u \in Threads :
                  (/\ sender[u].api = "send_magic_to"
                   /\ sender[u].src = [ip |-> <<0, 0, 0, 0>>, port |-> 0]
                   /\ sender[u].dst = [ip |-> <<255, 255, 255, 255>>, port |-> 9]
                   /\ sender[u].packet = s.packet
                   /\ sender[u].pc = "returned"
                   /\ s.pc = "returned"
                   /\ AnswersOf(u) = AnswersOf(t)) =>
                      /\ sender[u].ret = s.ret
                      /\ sender[u].log = s.log
                      /\ {[dst |-> wire[i].dst, payload |-> wire[i].payload] :
                             i \in DatagramsOf(sender[u].id)}
                         = {[dst |-> wire[i].dst, payload |-> wire[i].payload] :
                              i \in DatagramsOf(s.id)}

\* send_magic and send_magic_to with the default addresses both sent the
\* same packet
C9_Witness ==
    \E t, u \in Threads :
        /\ sender[t].api = "send_magic"
        /\ sender[u].api = "send_magic_to"
        /\ sender[u].src = [ip |-> <<0, 0, 0, 0>>, port |-> 0]
        /\ sender[u].packet = sender[t].packet
        /\ sender[t].ret.tag = "Ok"
        /\ sender[u].ret.tag = "Ok"

----------------------------------------------------------------------------
(* What the claim about the command-line programs speaks of *)

IsSep(c) == c \in {58, 45, 47}

\* the first of ':', '-', '/' in the text m, which holds one
FirstSepOf(m) ==
    m[CHOOSE i \in 1..Len(m) : IsSep(m[i]) /\ \A j \in 1..(i - 1) : ~IsSep(m[j])]

\* C10 as stated: the separator given to from_string is the first of ':',
\* '-', '/' found in the MAC string, and a string that holds none of them is
\* parsed with a default separator, the program not aborting before.
C10_FirstMatchOrDefault ==
    (cli.pc = "exit" /\ cli.arg.some) =>
        /\ cli.parse # "not called"
        /\ cli.sep.some
        /\ (\E i \in 1..Len(cli.arg.val) : IsSep(cli.arg.val[i])) =>
              cli.sep.val = FirstSepOf(cli.arg.val)

\* C10 amended: wakey-wake gives from_string the first of ':', '-', '/'
\* found in the MAC string and, when the string holds none, panics before
\* from_string is called, with no fallback, printing nothing and with the
\* message "Invalid MAC address format. Please use one of the separators:
\* [:, -, /]"; the earlier wake gives '-' when
\* the string holds a '-', else ':' when it holds a ':', else the default
\* '/', wherever they stand in the string.
C10_SeparatorInference ==
    (cli.pc = "exit" /\ cli.arg.some) =>
        LET m == cli.arg.val
        IN /\ cli.prog = "wakey-wake" =>
                IF \E i \in 1..Len(m) : IsSep(m[i])
                THEN /\ cli.sep = Some(FirstSepOf(m))
                     /\ cli.parse # "not called"
                ELSE /\ cli.sep = None
                     /\ cli.parse = "not called"
                     /\ cli.exit = "panic"
                     /\ cli.panic =
                          <<"Invalid MAC address format. Please use one of the separators: [:, -, /]">>
                     /\ cli.stdout = <<>>
           /\ cli.prog = "wake" =>
                /\ cli.parse # "not called"
                /\ cli.sep = Some(IF \E i \in 1..Len(m) : m[i] = 45 THEN 45
                                  ELSE IF \E i \in 1..Len(m) : m[i] = 58 THEN 58
                                  ELSE 47)

\* wakey-wake parsed "09/09:09-09:09/09" with '/'
C10_Witness ==
    /\ cli.pc = "exit"
    /\ cli.prog = "wakey-wake"
    /\ cli.arg = Some(<<48, 57, 47, 48, 57, 58, 48, 57, 45, 48, 57, 58, 48, 57,
                        47, 48, 57>>)
    /\ cli.sep = Some(47)
    /\ cli.parse = "InvalidMacFormat"

====
